---- MODULE Spec2Model ----
(***************************************************************************)
(* Listing lifecycle and availability broadcast of tgram-availbot:         *)
(* the group-chat handlers of handlers/admin.py (/available, the duration  *)
(* buttons, /bump, the bump buttons), the store of db.py and the expiry    *)
(* sweep of scheduler.py.  Instants are whole seconds.                     *)
(***************************************************************************)
EXTENDS Integers, Sequences, FiniteSets, TLC

\* ------------------------------------------------------------------ bounds
MaxTicks == 8
TickSeconds == 900
CoarseTicks == 4
MaxMsgs == 3
MaxListingIds == 2
MaxPrompts == 1
MaxProbe == 10
ProbeStep == 225

\* ------------------------------------------------- constants of the program
COOLDOWN_MINUTES == 30
BUMP_COOLDOWN_SECONDS == COOLDOWN_MINUTES * 60
LISTING_DURATIONS == [k \in {"2h", "4h", "6h"} |-> CASE k = "2h" -> 2 [] k = "4h" -> 4 [] k = "6h" -> 6]
APPROVED_ADMIN_IDS == {1, 2}

\* The users that talk to the bot in the group chat; both have a profile,
\* the profile of user 1 carries photos (its listing is sent as a media group).
Users == {1, 2}
WithMedia == {1}

\* callback data of the duration buttons ("duration_<k>") and one value that
\* matches the handler's pattern "^duration_" without being an offered key
DurationData == {"2h", "4h", "6h", "9h"}
\* callback data matched by the pattern "^bump_": the four buttons of the bump
\* prompt and the "bump_listing" button of the /start menu
BumpData == {"bump_keep", "bump_reset_2", "bump_reset_4", "bump_reset_6", "bump_listing"}

VARIABLES
    now,            \* the clock (datetime.now), seconds
    profiles,       \* table profiles: the user ids that have a profile
    listings,       \* table active_listings: a set of records
    nextListingId,  \* the id the store gives the next inserted listing
    chan,           \* ids of the listing messages present in the group chat
    nextMsgId,      \* the channel's message ids 1 .. nextMsgId-1 were returned by a send
    user_data,      \* context.user_data of each user (the pending-bump session)
    durPrompts,     \* duration prompts whose keyboard is still shown
    bumpPrompts,    \* bump prompts whose keyboard is still shown
    reply,          \* the last operation and what it told its caller
    pinnedPtr,      \* table list_messages, row "pinned": a message id, 0 when absent
    pinnedText,     \* the content the pinned message shows
    probe,          \* inputs and result of one evaluation of the cooldown gate
    sweep,          \* the pass of cleanup_expired_listings under way, if any
    bump,           \* the run of bump_execute_callback under way, if any
    render,         \* inputs and result of one rendering of the list message
    chatPtr,        \* table list_messages, row "chat": a message id, 0 when absent
    chatView,       \* the chat list messages present in the group chat: id and text
    member,         \* the run of member_available_command under way, if any
    countdown       \* the pass of update_countdown_timers under way, if any

\* the chat list: its pointer, its messages, the handler that refreshes it
chatVars == <<chatPtr, chatView, member>>

\* what only the specifications of single functions and jobs change
auxVars == <<render, chatVars, countdown>>

\* the positions of the handlers and jobs modelled step by step, and auxVars
restVars == <<bump, auxVars>>

vars == <<now, profiles, listings, nextListingId, chan, nextMsgId, user_data,
          durPrompts, bumpPrompts, reply, pinnedPtr,
          pinnedText, probe, sweep, restVars>>

storeVars == <<profiles, listings, nextListingId, pinnedPtr>>
chanVars == <<chan, nextMsgId, pinnedText>>

\* ------------------------------------------------------------------ records
NoListing == [id |-> 0, user_id |-> 0, message_id |-> 0, expires_at |-> 0,
              duration_hours |-> 0, last_bump_at |-> 0]
NoSession == [bump_listing_id |-> 0, bump_time_remaining |-> 0]
NoProbe == [last_bump_at |-> 0, now |-> 0, done |-> FALSE, allowed |-> FALSE,
            time_left |-> 0, minutes |-> 0, seconds |-> 0]
NoSweep == [running |-> FALSE, todo |-> {}, any |-> FALSE]
NoBump == [running |-> FALSE, user_id |-> 0, data |-> "", listing |-> NoListing]
NoMember == [running |-> FALSE, list_content |-> [count |-> 0, entries |-> {}]]
NoCountdown == [running |-> FALSE, todo |-> {}, attempted |-> {}]
NoRender == [done |-> FALSE, profiles |-> {}, out |-> [count |-> 0, entries |-> {}]]
Idle(op) == [op |-> op, result |-> "none", mode |-> "", deleted |-> FALSE]

\* ------------------------------------------------------------------- db.py
\* get_profile: the row of the user, None when there is none or the read fails
get_profile(u) == IF u \in profiles THEN {TRUE, FALSE} ELSE {FALSE}

\* get_active_listing: response.data[0] of an unordered select on user_id, so
\* any of the user's rows; None when there is none or the read fails
get_active_listing(u) == {r \in listings : r.user_id = u} \cup {NoListing}

\* save_active_listing: inserts a row, the store assigning its id; an
\* exception of the store is swallowed and the row is not inserted
save_active_listing(data) ==
    \/ /\ listings' = listings \cup {[data EXCEPT !.id = nextListingId]}
       /\ nextListingId' = nextListingId + 1
    \/ /\ UNCHANGED <<listings, nextListingId>>

\* update_active_listing: update ... where id = listing_id; no row, no change
update_active_listing(listing_id, data) ==
    \/ listings' = {IF r.id = listing_id
                    THEN [r EXCEPT !.message_id = data.message_id,
                                   !.expires_at = data.expires_at,
                                   !.duration_hours = data.duration_hours,
                                   !.last_bump_at = data.last_bump_at]
                    ELSE r : r \in listings}
    \/ listings' = listings

\* delete_active_listing: delete ... where id = listing_id
delete_active_listing(listing_id) ==
    \/ listings' = {r \in listings : r.id # listing_id}
    \/ listings' = listings

\* ------------------------------------------------------------- the channel
\* bot.delete_message: the message is gone, or the call fails and it stays
delete_message(mid) ==
    \/ chan' = chan \ {mid}
    \/ chan' = chan

\* bot.send_message / bot.send_media_group of a listing of user u: how the
\* message got sent, or "failed" when the send (and, for a media group, the
\* text fallback after it) raised.  A send returns the next message id.
send_listing(u) ==
    IF nextMsgId > MaxMsgs THEN {"failed"}
    ELSE IF u \in WithMedia THEN {"media_group", "fallback_text", "failed"}
    ELSE {"text", "failed"}

\* query.edit_message_text on a prompt: the keyboard goes away, or the call
\* fails and the prompt stays as it was
edit_prompt(n) == {n - 1, n}

\* ------------------------------------------------------ the cooldown gate
\* a gate that also rejects at the very end of the cooldown (now <= cooldown_end)
can_bump_inclusive(last_bump_at, n) ==
    LET cooldown_end == last_bump_at + COOLDOWN_MINUTES * 60
        time_left == cooldown_end - n
    IN  [allowed |-> ~(n <= cooldown_end),
         time_left |-> time_left,
         minutes |-> time_left \div 60,
         seconds |-> time_left % 60]

\* handlers/admin.py, bump_command: cooldown_end = last_bump_at + 30 minutes,
\* rejected iff now < cooldown_end, the reply showing time_left as
\* "<minutes>m <seconds>s"
can_bump(last_bump_at, n) ==
    LET cooldown_end == last_bump_at + COOLDOWN_MINUTES * 60
        time_left == cooldown_end - n
    IN  [allowed |-> ~(n < cooldown_end),
         time_left |-> time_left,
         minutes |-> time_left \div 60,
         seconds |-> time_left % 60]

\* -------------------------------------------------------------------- Init
InitProgram ==
    /\ now = 0
    /\ profiles = Users
    /\ listings = {}
    /\ nextListingId = 1
    /\ chan = {}
    /\ nextMsgId = 1
    /\ user_data = [u \in Users |-> NoSession]
    /\ durPrompts = 0
    /\ bumpPrompts = 0
    /\ reply = Idle("start")
    /\ pinnedPtr = 0
    /\ pinnedText = [count |-> 0, entries |-> {}]
    /\ sweep = NoSweep
    /\ bump = NoBump
    /\ render = NoRender
    /\ chatPtr = 0
    /\ chatView = {}
    /\ member = NoMember
    /\ countdown = NoCountdown

Init ==
    /\ InitProgram
    /\ probe = NoProbe

\* time passes, n ticks at once
Tick(n) ==
    /\ now + n * TickSeconds <= MaxTicks * TickSeconds
    /\ now' = now + n * TickSeconds
    /\ reply' = Idle("tick")
    /\ UNCHANGED <<storeVars, chanVars, user_data, durPrompts, bumpPrompts, probe, sweep, restVars>>

\* ------------------------------------------------- /available (the admin's)
\* handlers/admin.py, admin_available_command
admin_available_command(u) ==
    /\ durPrompts < MaxPrompts
    /\ UNCHANGED <<now, profiles, nextListingId, pinnedPtr, nextMsgId, pinnedText,
                   user_data, bumpPrompts, probe, sweep, restVars>>
    /\ IF u \notin APPROVED_ADMIN_IDS
       THEN /\ reply' = [Idle("available") EXCEPT !.result = "unauthorized"]
            /\ UNCHANGED <<listings, chan, durPrompts>>
       ELSE \E profile \in get_profile(u) :
            IF ~profile
            THEN /\ reply' = [Idle("available") EXCEPT !.result = "no_profile"]
                 /\ UNCHANGED <<listings, chan, durPrompts>>
            ELSE \E existing_listing \in get_active_listing(u) :
                 /\ IF existing_listing # NoListing
                    THEN /\ delete_message(existing_listing.message_id)
                         /\ delete_active_listing(existing_listing.id)
                    ELSE UNCHANGED <<listings, chan>>
                 /\ \/ /\ durPrompts' = durPrompts + 1
                       /\ reply' = [Idle("available") EXCEPT !.result = IF existing_listing # NoListing
                                                  THEN "replaced" ELSE "prompted"]
                    \/ /\ durPrompts' = durPrompts
                       /\ reply' = [Idle("available") EXCEPT !.result = "error"]

\* ----------------------------------------------- the duration buttons (Create)
\* a row that names the message after the one that was sent
listing_data_unsent(u, message_id, duration_hours, expires_at, t) ==
    [id |-> 0, user_id |-> u, message_id |-> message_id + 1, expires_at |-> expires_at,
     duration_hours |-> duration_hours, last_bump_at |-> t]

\* the row post_listing_callback hands to save_active_listing
listing_data(u, message_id, duration_hours, expires_at, t) ==
    [id |-> 0, user_id |-> u, message_id |-> message_id, expires_at |-> expires_at,
     duration_hours |-> duration_hours, last_bump_at |-> t]

\* a Create that saves the row first and sends the message after
post_listing_save_first(u, duration_hours, expires_at) ==
    \E via \in send_listing(u) :
        /\ IF nextListingId > MaxListingIds
           THEN UNCHANGED <<listings, nextListingId>>
           ELSE save_active_listing(
                    listing_data(u, nextMsgId, duration_hours, expires_at, now))
        /\ IF via = "failed"
           THEN /\ reply' = [Idle("post_listing") EXCEPT !.result = "send_failed"]
                /\ UNCHANGED <<chan, nextMsgId, durPrompts>>
           ELSE /\ chan' = chan \cup {nextMsgId}
                /\ nextMsgId' = nextMsgId + 1
                /\ durPrompts' \in edit_prompt(durPrompts)
                /\ reply' = [Idle("post_listing") EXCEPT !.result = "live", !.mode = via]

\* handlers/admin.py, post_listing_callback, from the send on: the message is
\* sent, then the row is saved, then the prompt is edited (between the two,
\* update_available_lists_now only prints a line)
post_listing_send(u, duration_hours, expires_at) ==
    \E via \in send_listing(u) :
        IF via = "failed"
        THEN /\ reply' = [Idle("post_listing") EXCEPT !.result = "send_failed"]
             /\ UNCHANGED <<listings, nextListingId, chan, nextMsgId, durPrompts>>
        ELSE /\ chan' = chan \cup {nextMsgId}
             /\ nextMsgId' = nextMsgId + 1
             /\ IF nextListingId > MaxListingIds
                THEN UNCHANGED <<listings, nextListingId>>
                ELSE save_active_listing(
                         listing_data(u, nextMsgId, duration_hours, expires_at, now))
             /\ durPrompts' \in edit_prompt(durPrompts)
             /\ reply' = [Idle("post_listing") EXCEPT !.result = "live", !.mode = via]

\* a click handler that takes a duration it does not know for the shortest
\* one, and posts
post_listing_callback_default_duration(u, d) ==
    /\ durPrompts > 0
    /\ UNCHANGED <<now, profiles, pinnedPtr, pinnedText, user_data, bumpPrompts,
                   probe, sweep, restVars>>
    /\ LET k == IF d \in DOMAIN LISTING_DURATIONS THEN d ELSE "2h"
       IN  \E profile \in get_profile(u) :
            IF ~profile
            THEN /\ durPrompts' \in edit_prompt(durPrompts)
                 /\ reply' = [Idle("post_listing") EXCEPT !.result = "no_profile"]
                 /\ UNCHANGED <<listings, nextListingId, chan, nextMsgId>>
            ELSE post_listing_send(u, LISTING_DURATIONS[k],
                                   now + LISTING_DURATIONS[k] * 3600)

\* handlers/admin.py, post_listing_callback
post_listing_callback(u, d) ==
    /\ durPrompts > 0
    /\ UNCHANGED <<now, profiles, pinnedPtr, pinnedText, user_data, bumpPrompts,
                   probe, sweep, restVars>>
    /\ IF d \notin DOMAIN LISTING_DURATIONS
       THEN /\ durPrompts' \in edit_prompt(durPrompts)
            /\ reply' = [Idle("post_listing") EXCEPT !.result = "invalid_duration"]
            /\ UNCHANGED <<listings, nextListingId, chan, nextMsgId>>
       ELSE \E profile \in get_profile(u) :
            IF ~profile
            THEN /\ durPrompts' \in edit_prompt(durPrompts)
                 /\ reply' = [Idle("post_listing") EXCEPT !.result = "no_profile"]
                 /\ UNCHANGED <<listings, nextListingId, chan, nextMsgId>>
            ELSE post_listing_send(u, LISTING_DURATIONS[d],
                                   now + LISTING_DURATIONS[d] * 3600)

\* ------------------------------------------------------------------- /bump
\* a cooldown branch that stores the pending-bump session all the same
bump_cooldown_reject_stores(u, listing) ==
    /\ reply' = [Idle("bump") EXCEPT !.result = "cooldown"]
    /\ user_data' = [user_data EXCEPT ![u] =
                        [bump_listing_id |-> listing.id,
                         bump_time_remaining |-> listing.expires_at - now]]
    /\ UNCHANGED bumpPrompts

\* handlers/admin.py, bump_command, the cooldown branch: the wait is replied,
\* nothing else happens
bump_cooldown_reject(u, listing) ==
    /\ reply' = [Idle("bump") EXCEPT !.result = "cooldown"]
    /\ UNCHANGED <<user_data, bumpPrompts>>

\* handlers/admin.py, bump_command, past the cooldown: the prompt is replied
\* and the listing id and the remaining seconds go to context.user_data; a
\* reply that raises ends the handler before they are stored
bump_prompt(u, listing) ==
    LET time_remaining == listing.expires_at - now
    IN  \/ /\ bumpPrompts < MaxPrompts
           /\ bumpPrompts' = bumpPrompts + 1
           /\ user_data' = [user_data EXCEPT ![u] =
                               [bump_listing_id |-> listing.id,
                                bump_time_remaining |-> time_remaining]]
           /\ reply' = [Idle("bump") EXCEPT !.result = "prompted"]
        \/ /\ reply' = [Idle("bump") EXCEPT !.result = "error"]
           /\ UNCHANGED <<user_data, bumpPrompts>>

\* handlers/admin.py, bump_command
bump_command(u) ==
    /\ UNCHANGED <<now, storeVars, chanVars, durPrompts, probe, sweep, restVars>>
    /\ IF u \notin APPROVED_ADMIN_IDS
       THEN /\ reply' = [Idle("bump") EXCEPT !.result = "unauthorized"]
            /\ UNCHANGED <<user_data, bumpPrompts>>
       ELSE \E listing \in get_active_listing(u) :
            IF listing = NoListing
            THEN /\ reply' = [Idle("bump") EXCEPT !.result = "no_listing"]
                 /\ UNCHANGED <<user_data, bumpPrompts>>
            ELSE IF ~can_bump(listing.last_bump_at, now).allowed
                 THEN bump_cooldown_reject(u, listing)
                 ELSE bump_prompt(u, listing)

\* ------------------------------------------------- the bump buttons (Bump)
\* a keep option that stores the remaining seconds as the expiry instant
new_expiry_keep_absolute(data, t, time_remaining_seconds, old_duration_hours) ==
    IF data = "bump_keep"
    THEN [valid |-> TRUE, expires_at |-> time_remaining_seconds,
          duration_hours |-> time_remaining_seconds \div 3600]
    ELSE IF data \in {"bump_reset_2", "bump_reset_4", "bump_reset_6"}
    THEN LET duration_hours == CASE data = "bump_reset_2" -> 2
                                 [] data = "bump_reset_4" -> 4
                                 [] data = "bump_reset_6" -> 6
         IN  [valid |-> TRUE, expires_at |-> t + duration_hours * 3600,
              duration_hours |-> duration_hours]
    ELSE [valid |-> FALSE, expires_at |-> t, duration_hours |-> old_duration_hours]

\* a reset option that adds the chosen duration to the remaining seconds
new_expiry_reset_extends(data, t, time_remaining_seconds, old_duration_hours) ==
    IF data = "bump_keep"
    THEN [valid |-> TRUE, expires_at |-> t + time_remaining_seconds,
          duration_hours |-> time_remaining_seconds \div 3600]
    ELSE IF data \in {"bump_reset_2", "bump_reset_4", "bump_reset_6"}
    THEN LET duration_hours == CASE data = "bump_reset_2" -> 2
                                 [] data = "bump_reset_4" -> 4
                                 [] data = "bump_reset_6" -> 6
         IN  [valid |-> TRUE,
              expires_at |-> t + time_remaining_seconds + duration_hours * 3600,
              duration_hours |-> duration_hours]
    ELSE [valid |-> FALSE, expires_at |-> t, duration_hours |-> old_duration_hours]

\* handlers/admin.py, bump_execute_callback: the new expiry and duration_hours
\* of the chosen option; not valid for data that is neither
new_expiry(data, t, time_remaining_seconds, old_duration_hours) ==
    IF data = "bump_keep"
    THEN [valid |-> TRUE, expires_at |-> t + time_remaining_seconds,
          duration_hours |-> time_remaining_seconds \div 3600]
    ELSE IF data \in {"bump_reset_2", "bump_reset_4", "bump_reset_6"}
    THEN LET duration_hours == CASE data = "bump_reset_2" -> 2
                                 [] data = "bump_reset_4" -> 4
                                 [] data = "bump_reset_6" -> 6
         IN  [valid |-> TRUE, expires_at |-> t + duration_hours * 3600,
              duration_hours |-> duration_hours]
    ELSE [valid |-> FALSE, expires_at |-> t, duration_hours |-> old_duration_hours]

\* a commit that raises when the update matches no row of the store
bump_commit_needs_row(u, listing_id, data, ne, sent) ==
    /\ \E r \in listings : r.id = listing_id
    /\ update_active_listing(listing_id,
           [message_id |-> sent, expires_at |-> ne.expires_at,
            duration_hours |-> ne.duration_hours, last_bump_at |-> now])
    /\ \/ /\ bumpPrompts' = bumpPrompts - 1
          /\ user_data' = [user_data EXCEPT ![u] = NoSession]
          /\ reply' = [Idle("bump_execute") EXCEPT !.result = "bumped",
                                                   !.mode = data]
       \/ /\ UNCHANGED <<bumpPrompts, user_data>>
          /\ reply' = [Idle("bump_execute") EXCEPT !.result = "bumped_edit_failed",
                                                   !.mode = data]

\* handlers/admin.py, bump_execute_callback, after a successful repost: the
\* record is updated, the prompt edited and the session popped
\* (update_available_lists_now only prints a line); an edit that raises ends
\* the handler before the pop
bump_commit(u, listing_id, data, ne, sent) ==
    /\ update_active_listing(listing_id,
           [message_id |-> sent, expires_at |-> ne.expires_at,
            duration_hours |-> ne.duration_hours, last_bump_at |-> now])
    /\ \/ /\ bumpPrompts' = bumpPrompts - 1
          /\ user_data' = [user_data EXCEPT ![u] = NoSession]
          /\ reply' = [Idle("bump_execute") EXCEPT !.result = "bumped",
                                                   !.mode = data]
       \/ /\ UNCHANGED <<bumpPrompts, user_data>>
          /\ reply' = [Idle("bump_execute") EXCEPT !.result = "bumped_edit_failed",
                                                   !.mode = data]

\* a failed repost that drops the rows whose message is gone from the channel
bump_repost_failed_drops(told, chan1) ==
    /\ reply' = [told EXCEPT !.result = "repost_failed"]
    /\ chan' = chan1
    /\ listings' = {r \in listings : r.message_id \in chan1}
    /\ UNCHANGED <<nextMsgId, user_data, bumpPrompts>>

\* handlers/admin.py, bump_execute_callback, the send of the new message
\* raises: the handler ends there, the exception going to its caller
bump_repost_failed(told, chan1) ==
    /\ reply' = [told EXCEPT !.result = "repost_failed"]
    /\ chan' = chan1
    /\ UNCHANGED <<listings, nextMsgId, user_data, bumpPrompts>>

\* a confirmation that gives up when the old message is still in the channel
\* after the delete
bump_execute_repost_aborts(u, data, listing, listing_id, chan1) ==
    LET ne == new_expiry(data, now, user_data[u].bump_time_remaining,
                         listing.duration_hours)
        deleted == listing.message_id \notin chan1
        told == [Idle("bump_execute") EXCEPT !.deleted = deleted]
    IN  IF ~ne.valid
        THEN /\ bumpPrompts' \in edit_prompt(bumpPrompts)
             /\ reply' = [told EXCEPT !.result = "invalid_option"]
             /\ chan' = chan1
             /\ UNCHANGED <<listings, nextMsgId, user_data>>
        ELSE \E profile \in get_profile(u) :
             IF ~profile
             THEN /\ bumpPrompts' \in edit_prompt(bumpPrompts)
                  /\ reply' = [told EXCEPT !.result = "no_profile"]
                  /\ chan' = chan1
                  /\ UNCHANGED <<listings, nextMsgId, user_data>>
             ELSE \/ /\ nextMsgId <= MaxMsgs
                     /\ deleted
                     /\ chan' = chan1 \cup {nextMsgId}
                     /\ nextMsgId' = nextMsgId + 1
                     /\ bump_commit(u, listing_id, data, ne, nextMsgId)
                  \/ bump_repost_failed(told, chan1)

\* handlers/admin.py, bump_execute_callback, from the delete of the old
\* message on; chan1 is the channel after that delete
bump_execute_repost(u, data, listing, listing_id, chan1) ==
    LET ne == new_expiry(data, now, user_data[u].bump_time_remaining,
                         listing.duration_hours)
        deleted == listing.message_id \notin chan1
        told == [Idle("bump_execute") EXCEPT !.deleted = deleted]
    IN  IF ~ne.valid
        THEN /\ bumpPrompts' \in edit_prompt(bumpPrompts)
             /\ reply' = [told EXCEPT !.result = "invalid_option"]
             /\ chan' = chan1
             /\ UNCHANGED <<listings, nextMsgId, user_data>>
        ELSE \E profile \in get_profile(u) :
             IF ~profile
             THEN /\ bumpPrompts' \in edit_prompt(bumpPrompts)
                  /\ reply' = [told EXCEPT !.result = "no_profile"]
                  /\ chan' = chan1
                  /\ UNCHANGED <<listings, nextMsgId, user_data>>
             ELSE \/ /\ nextMsgId <= MaxMsgs
                     /\ chan' = chan1 \cup {nextMsgId}
                     /\ nextMsgId' = nextMsgId + 1
                     /\ bump_commit(u, listing_id, data, ne, nextMsgId)
                  \/ bump_repost_failed(told, chan1)

\* a confirmation that bumps whatever listing the owner has now, also one
\* with another id than the session's
bump_execute_callback_any_listing(u, data) ==
    /\ bumpPrompts > 0
    /\ UNCHANGED <<now, profiles, nextListingId, pinnedPtr, pinnedText, durPrompts, probe, sweep, restVars>>
    /\ LET listing_id == user_data[u].bump_listing_id
       IN  IF listing_id = 0
           THEN /\ bumpPrompts' \in edit_prompt(bumpPrompts)
                /\ reply' = [Idle("bump_execute") EXCEPT !.result = "no_session"]
                /\ UNCHANGED <<listings, chan, nextMsgId, user_data>>
           ELSE \E listing \in get_active_listing(u) :
                IF listing = NoListing
                THEN /\ bumpPrompts' \in edit_prompt(bumpPrompts)
                     /\ reply' = [Idle("bump_execute") EXCEPT !.result = "not_found"]
                     /\ UNCHANGED <<listings, chan, nextMsgId, user_data>>
                ELSE \E chan1 \in {chan \ {listing.message_id}, chan} :
                         bump_execute_repost(u, data, listing, listing.id, chan1)

\* handlers/admin.py, bump_execute_callback
bump_execute_callback(u, data) ==
    /\ bumpPrompts > 0
    /\ UNCHANGED <<now, profiles, nextListingId, pinnedPtr, pinnedText, durPrompts, probe, sweep, restVars>>
    /\ LET listing_id == user_data[u].bump_listing_id
       IN  IF listing_id = 0
           THEN /\ bumpPrompts' \in edit_prompt(bumpPrompts)
                /\ reply' = [Idle("bump_execute") EXCEPT !.result = "no_session"]
                /\ UNCHANGED <<listings, chan, nextMsgId, user_data>>
           ELSE \E listing \in get_active_listing(u) :
                IF listing = NoListing \/ listing.id # listing_id
                THEN /\ bumpPrompts' \in edit_prompt(bumpPrompts)
                     /\ reply' = [Idle("bump_execute") EXCEPT !.result = "not_found"]
                     /\ UNCHANGED <<listings, chan, nextMsgId, user_data>>
                ELSE \E chan1 \in {chan \ {listing.message_id}, chan} :
                         bump_execute_repost(u, data, listing, listing_id, chan1)

\* ------------------------------------- the bump buttons, one await at a time
\* handlers/admin.py, bump_execute_callback up to the end of its first await
\* on the channel: the session and the listing are checked and the delete of
\* the old message is awaited; the jobs of the scheduler, which run in a
\* thread of their own, may run before the handler goes on
bump_execute_begin(u, data) ==
    /\ ~bump.running
    /\ bumpPrompts > 0
    /\ UNCHANGED <<now, profiles, nextListingId, pinnedPtr, pinnedText, durPrompts,
                   probe, sweep, auxVars>>
    /\ LET listing_id == user_data[u].bump_listing_id
       IN  IF listing_id = 0
           THEN /\ bumpPrompts' \in edit_prompt(bumpPrompts)
                /\ reply' = [Idle("bump_execute") EXCEPT !.result = "no_session"]
                /\ UNCHANGED <<listings, chan, nextMsgId, user_data, bump>>
           ELSE \E listing \in get_active_listing(u) :
                IF listing = NoListing \/ listing.id # listing_id
                THEN /\ bumpPrompts' \in edit_prompt(bumpPrompts)
                     /\ reply' = [Idle("bump_execute") EXCEPT !.result = "not_found"]
                     /\ UNCHANGED <<listings, chan, nextMsgId, user_data, bump>>
                ELSE /\ delete_message(listing.message_id)
                     /\ bump' = [running |-> TRUE, user_id |-> u, data |-> data,
                                 listing |-> listing]
                     /\ reply' = [Idle("bump_execute") EXCEPT !.result = "running"]
                     /\ UNCHANGED <<listings, nextMsgId, user_data, bumpPrompts>>

\* handlers/admin.py, bump_execute_callback after the delete of the old
\* message: the clock is read, the new expiry computed, the new message sent
\* and the record updated
bump_execute_end ==
    /\ bump.running
    /\ bump_execute_repost(bump.user_id, bump.data, bump.listing, bump.listing.id, chan)
    /\ bump' = NoBump
    /\ UNCHANGED <<now, profiles, nextListingId, pinnedPtr, pinnedText, durPrompts,
                   probe, sweep, auxVars>>

\* ------------------------------------------------------------ scheduler.py
\* a list message with an entry for every listing, profile or not
generate_list_message_all(active_listings, profiles_found) ==
    [count |-> Cardinality(active_listings),
     entries |-> {<<r.user_id, r.message_id>> : r \in active_listings}]

\* utils/formatting.py, generate_list_message: the header counts the listings,
\* an entry (owner, link to the message) is rendered for each listing whose
\* owner is in profiles_found
generate_list_message(active_listings, profiles_found) ==
    [count |-> Cardinality(active_listings),
     entries |-> {<<r.user_id, r.message_id>> :
                    r \in {x \in active_listings : x.user_id \in profiles_found}}]

\* scheduler.py, get_profiles_for_listings (and the same loop of
\* member_available_command): the profiles of the owners of the listings, a
\* profile missing from the result when the owner has none or its read fails
get_profiles_for_listings(ls) ==
    SUBSET ({r.user_id : r \in ls} \cap profiles)

\* a call of a method of the Application's bot from a scheduler job: the
\* methods are coroutine functions and the jobs, plain functions run by the
\* BackgroundScheduler, call them without awaiting them, so the request is
\* never made and nothing is raised; the channel content stays as it was
unawaited(before, requested) == before

\* a synchronizer that edits the pinned message without looking for the
\* pointer
update_available_lists_unconditional(ls) ==
    \E active_listings \in {ls, {}} :
        IF active_listings = {}
        THEN pinnedText' = pinnedText
        ELSE \E profiles_found \in SUBSET ({r.user_id : r \in active_listings} \cap profiles) :
             pinnedText' = generate_list_message(active_listings, profiles_found)

\* scheduler.py, update_available_lists, run on the store's listings ls (or on
\* [] when the read fails): nothing is done when no listing is read; else the
\* summary is rendered and, when the pinned pointer exists, bot.edit_message_text
\* is called on the pinned message
update_available_lists(ls) ==
    \E active_listings \in {ls, {}} :
        IF active_listings = {}
        THEN pinnedText' = pinnedText
        ELSE \E profiles_found \in SUBSET ({r.user_id : r \in active_listings} \cap profiles) :
             IF pinnedPtr # 0
             THEN pinnedText' = unawaited(pinnedText,
                                    generate_list_message(active_listings, profiles_found))
             ELSE pinnedText' = pinnedText

\* a sweep that expires a listing only after its expires_at, not at it
is_expired_strict(listing, t) == listing.expires_at < t

\* whether the sweep expires a listing
is_expired(listing, t) == listing.expires_at <= t

\* a pass that deletes the record of an expired listing only when its message
\* is gone from the channel
cleanup_expired_listings_after_message ==
    /\ \E active_listings \in {listings, {}} :
       LET expired == {r \in active_listings : is_expired(r, now)}
       IN  /\ chan' = unawaited(chan, chan \ {r.message_id : r \in expired})
           /\ \E removed \in SUBSET {r.id : r \in {x \in expired : x.message_id \notin chan'}} :
                  listings' = {r \in listings : r.id \notin removed}
           /\ IF expired # {}
              THEN update_available_lists(listings')
              ELSE pinnedText' = pinnedText
    /\ reply' = Idle("cleanup")
    /\ UNCHANGED <<now, profiles, nextListingId, pinnedPtr, nextMsgId, user_data,
                   durPrompts, bumpPrompts, probe, sweep, restVars>>

\* scheduler.py, cleanup_expired_listings, one whole pass: for every listing
\* read with expires_at <= now, bot.delete_message is called on its message,
\* then its record is deleted (the delete may fail); the lists are updated
\* when one expired
cleanup_expired_listings ==
    /\ \E active_listings \in {listings, {}} :
       LET expired == {r \in active_listings : is_expired(r, now)}
       IN  /\ chan' = unawaited(chan, chan \ {r.message_id : r \in expired})
           /\ \E removed \in SUBSET {r.id : r \in expired} :
                  listings' = {r \in listings : r.id \notin removed}
           /\ IF expired # {}
              THEN update_available_lists(listings')
              ELSE pinnedText' = pinnedText
    /\ reply' = Idle("cleanup")
    /\ UNCHANGED <<now, profiles, nextListingId, pinnedPtr, nextMsgId, user_data,
                   durPrompts, bumpPrompts, probe, sweep, restVars>>

\* ------------------------------------------- the sweep, one call at a time
\* scheduler.py, cleanup_expired_listings, the start of a pass: all listings
\* and the clock are read once; the loop will act on those of them with
\* expires_at <= now.  The scheduler runs one pass of a job at a time.
sweep_read ==
    /\ ~sweep.running
    /\ \E active_listings \in {listings, {}} :
       LET expired == {r \in active_listings : is_expired(r, now)}
       IN  sweep' = [running |-> TRUE, todo |-> expired, any |-> expired # {}]
    /\ reply' = Idle("cleanup")
    /\ UNCHANGED <<now, storeVars, chanVars, user_data, durPrompts, bumpPrompts, probe, restVars>>

\* an Expire that deletes the records of the listing's owner, whatever their id
sweep_expire_by_owner(listing) ==
    /\ sweep.running
    /\ listing \in sweep.todo
    /\ chan' = unawaited(chan, chan \ {listing.message_id})
    /\ listings' = {r \in listings : r.user_id # listing.user_id}
    /\ sweep' = [sweep EXCEPT !.todo = @ \ {listing}]
    /\ reply' = Idle("cleanup")
    /\ UNCHANGED <<now, profiles, nextListingId, pinnedPtr, nextMsgId, pinnedText,
                   user_data, durPrompts, bumpPrompts, probe, restVars>>

\* an Expire that updates the lists itself, once for each expired listing
sweep_expire_updates(listing) ==
    /\ sweep.running
    /\ listing \in sweep.todo
    /\ chan' = unawaited(chan, chan \ {listing.message_id})
    /\ \E removed \in {{listing.id}, {}} :
           /\ listings' = {r \in listings : r.id \notin removed}
           /\ update_available_lists(listings')
    /\ sweep' = [sweep EXCEPT !.todo = @ \ {listing}]
    /\ reply' = [Idle("cleanup") EXCEPT !.result = "update_available_lists"]
    /\ UNCHANGED <<now, profiles, nextListingId, pinnedPtr, nextMsgId,
                   user_data, durPrompts, bumpPrompts, probe, restVars>>

\* scheduler.py, cleanup_expired_listings, the body of the loop for one
\* expired listing of the snapshot (Expire): bot.delete_message is called on
\* its message, then its record is deleted by id (the delete may fail)
sweep_expire(listing) ==
    /\ sweep.running
    /\ listing \in sweep.todo
    /\ chan' = unawaited(chan, chan \ {listing.message_id})
    /\ delete_active_listing(listing.id)
    /\ sweep' = [sweep EXCEPT !.todo = @ \ {listing}]
    /\ reply' = Idle("cleanup")
    /\ UNCHANGED <<now, profiles, nextListingId, pinnedPtr, nextMsgId, pinnedText,
                   user_data, durPrompts, bumpPrompts, probe, restVars>>

\* an end of pass out of which the failure of the edit of the pinned message
\* escapes: the pass is left unfinished
sweep_done_edit_escapes ==
    /\ sweep.running
    /\ sweep.todo = {}
    /\ IF sweep.any /\ pinnedPtr # 0 /\ listings # {}
       THEN /\ sweep' = sweep
            /\ reply' = [Idle("cleanup") EXCEPT !.result = "error"]
       ELSE /\ sweep' = NoSweep
            /\ reply' = IF sweep.any
                        THEN [Idle("cleanup") EXCEPT !.result = "update_available_lists"]
                        ELSE Idle("cleanup")
    /\ UNCHANGED <<now, storeVars, chanVars, user_data, durPrompts,
                   bumpPrompts, probe, restVars>>

\* scheduler.py, cleanup_expired_listings, the end of a pass: the lists are
\* updated when a listing of the snapshot was expired; reply.result tells
\* that update_available_lists was called ("Running update_available_lists
\* job..." in the log)
sweep_done ==
    /\ sweep.running
    /\ sweep.todo = {}
    /\ IF sweep.any
       THEN update_available_lists(listings)
       ELSE pinnedText' = pinnedText
    /\ sweep' = NoSweep
    /\ reply' = IF sweep.any
                THEN [Idle("cleanup") EXCEPT !.result = "update_available_lists"]
                ELSE Idle("cleanup")
    /\ UNCHANGED <<now, storeVars, chan, nextMsgId, user_data, durPrompts,
                   bumpPrompts, probe, restVars>>

\* a full resync that also drops the records of the listings it finds expired
list_periodic_update_prunes ==
    /\ update_available_lists(listings)
    /\ listings' = {r \in listings : ~is_expired(r, now)}
    /\ reply' = Idle("update_available_lists")
    /\ UNCHANGED <<now, profiles, nextListingId, pinnedPtr, chan, nextMsgId,
                   user_data, durPrompts, bumpPrompts, probe, sweep, restVars>>

\* scheduler.py, start_scheduler, the job list_periodic_update: one run of
\* update_available_lists on its own
list_periodic_update ==
    /\ update_available_lists(listings)
    /\ reply' = Idle("update_available_lists")
    /\ UNCHANGED <<now, storeVars, chan, nextMsgId, user_data, durPrompts,
                   bumpPrompts, probe, sweep, restVars>>

\* scheduler.py, update_countdown_timers, one whole pass: the listings and
\* the owners' profiles are read; whether the pass gets to call
\* bot.edit_message_text or ends before (see countdown_step), neither the
\* store nor the set of messages in the channel is written
update_countdown_timers ==
    /\ \E active_listings \in {listings, {}} :
           chan' = unawaited(chan, chan)
    /\ reply' = Idle("update_countdown_timers")
    /\ UNCHANGED <<now, storeVars, nextMsgId, pinnedText, user_data, durPrompts,
                   bumpPrompts, probe, sweep, restVars>>

\* handlers/admin.py, delete_profile_execute, with db.delete_profile: the row
\* of the user is deleted from profiles and, the schema being as db.py says
\* ("should cascade to active_listings due to foreign key"), the user's
\* listings with it; the schema is not part of the sources, so the listings
\* may also stay.  No message of the channel is deleted.  The delete fails
\* when it raises or finds no row.
delete_profile_execute(u) ==
    /\ \/ /\ u \in profiles
          /\ profiles' = profiles \ {u}
          /\ listings' \in {{r \in listings : r.user_id # u}, listings}
          /\ reply' = [Idle("delete_profile") EXCEPT !.result = "deleted"]
       \/ /\ UNCHANGED <<profiles, listings>>
          /\ reply' = [Idle("delete_profile") EXCEPT !.result = "failed"]
    /\ UNCHANGED <<now, nextListingId, pinnedPtr, chanVars, user_data, durPrompts,
                   bumpPrompts, probe, sweep, restVars>>

\* ------------------------------- the countdown refresh, one listing at a time
\* scheduler.py, update_countdown_timers, the start of a pass: all listings
\* are read once
countdown_read ==
    /\ ~countdown.running
    /\ \E active_listings \in {listings, {}} :
           countdown' = [running |-> TRUE, todo |-> active_listings, attempted |-> {}]
    /\ reply' = Idle("update_countdown_timers")
    /\ UNCHANGED <<now, storeVars, chanVars, user_data, durPrompts, bumpPrompts,
                   probe, sweep, bump, render, chatVars>>

\* scheduler.py, update_countdown_timers, the body of the loop for one
\* listing of the snapshot: a listing whose owner's profile is not found is
\* skipped; for the others the message is rendered by
\* db.generate_listing_message, which module db does not define (the function
\* is in utils.formatting): the AttributeError is raised outside the try and
\* ends the pass before any edit is called
countdown_step(listing) ==
    /\ countdown.running
    /\ listing \in countdown.todo
    /\ \E profile \in get_profile(listing.user_id) :
           IF ~profile
           THEN /\ countdown' = [countdown EXCEPT !.todo = @ \ {listing}]
                /\ reply' = Idle("update_countdown_timers")
           ELSE /\ countdown' = NoCountdown
                /\ reply' = [Idle("update_countdown_timers") EXCEPT !.result = "error"]
    /\ UNCHANGED <<now, storeVars, chanVars, user_data, durPrompts, bumpPrompts,
                   probe, sweep, bump, render, chatVars>>

\* scheduler.py, update_countdown_timers, the end of a pass
countdown_done ==
    /\ countdown.running
    /\ countdown.todo = {}
    /\ countdown' = NoCountdown
    /\ reply' = Idle("update_countdown_timers")
    /\ UNCHANGED <<now, storeVars, chanVars, user_data, durPrompts, bumpPrompts,
                   probe, sweep, bump, render, chatVars>>

\* ----------------------------------------- /available (the member's refresh)
\* handlers/member.py, member_available_command up to the end of its awaited
\* delete: in the designated group the listings and the owners' profiles are
\* read, the list is rendered, the chat pointer is read and, when there is
\* one, the delete of the message it names is awaited (it may fail)
member_available_begin(in_group) ==
    /\ ~member.running
    /\ IF ~in_group
       THEN /\ reply' = [Idle("member_available") EXCEPT !.result = "other_chat"]
            /\ UNCHANGED <<chatView, member>>
       ELSE \E active_listings \in {listings, {}} :
            \E profiles_found \in get_profiles_for_listings(active_listings) :
            \E old_chat_msg_data \in {chatPtr, 0} :
               /\ IF old_chat_msg_data # 0
                  THEN chatView' \in {{m \in chatView : m.id # old_chat_msg_data}, chatView}
                  ELSE chatView' = chatView
               /\ member' = [running |-> TRUE,
                             list_content |-> generate_list_message(active_listings,
                                                                    profiles_found)]
               /\ reply' = [Idle("member_available") EXCEPT !.result = "running"]
    /\ UNCHANGED <<now, storeVars, chanVars, user_data, durPrompts, bumpPrompts,
                   probe, sweep, bump, render, countdown, chatPtr>>

\* a refresh that edits the message the chat pointer names, when it is
\* there, and posts only otherwise
member_available_end_edits ==
    /\ member.running
    /\ IF \E m \in chatView : m.id = chatPtr
       THEN /\ chatView' = {IF m.id = chatPtr
                            THEN [m EXCEPT !.text = member.list_content]
                            ELSE m : m \in chatView}
            /\ UNCHANGED <<nextMsgId, chatPtr>>
            /\ reply' = [Idle("member_available") EXCEPT !.result = "posted"]
       ELSE \/ /\ nextMsgId <= MaxMsgs
               /\ chatView' = chatView \cup {[id |-> nextMsgId, text |-> member.list_content]}
               /\ nextMsgId' = nextMsgId + 1
               /\ chatPtr' \in {nextMsgId, chatPtr}
               /\ reply' = [Idle("member_available") EXCEPT !.result = "posted"]
            \/ /\ UNCHANGED <<chatView, nextMsgId, chatPtr>>
               /\ reply' = [Idle("member_available") EXCEPT !.result = "post_failed"]
    /\ member' = NoMember
    /\ UNCHANGED <<now, storeVars, chan, pinnedText, user_data, durPrompts, bumpPrompts,
                   probe, sweep, bump, render, countdown>>

\* handlers/member.py, member_available_command from the send on: the new
\* chat list message is sent and its id saved as the chat pointer (the save
\* may fail); a send that raises is caught and nothing is saved
member_available_end ==
    /\ member.running
    /\ \/ /\ nextMsgId <= MaxMsgs
          /\ chatView' = chatView \cup {[id |-> nextMsgId, text |-> member.list_content]}
          /\ nextMsgId' = nextMsgId + 1
          /\ chatPtr' \in {nextMsgId, chatPtr}
          /\ reply' = [Idle("member_available") EXCEPT !.result = "posted"]
       \/ /\ UNCHANGED <<chatView, nextMsgId, chatPtr>>
          /\ reply' = [Idle("member_available") EXCEPT !.result = "post_failed"]
    /\ member' = NoMember
    /\ UNCHANGED <<now, storeVars, chan, pinnedText, user_data, durPrompts, bumpPrompts,
                   probe, sweep, bump, render, countdown>>

\* --------------------------------------------------------------------- Next
Next ==
    \/ Tick(1)
    \/ \E u \in Users : admin_available_command(u)
    \/ \E u \in Users, d \in DurationData : post_listing_callback(u, d)
    \/ \E u \in Users : bump_command(u)
    \/ \E u \in Users, data \in BumpData : bump_execute_callback(u, data)
    \/ cleanup_expired_listings

Spec == Init /\ [][Next]_vars

\* ------------------------------------------- the cooldown gate on its own
\* the gate of bump_command applied to one pair (last_bump_at, now)
InitCooldown ==
    /\ InitProgram
    /\ \E a, b \in 0 .. MaxProbe :
           probe = [NoProbe EXCEPT !.last_bump_at = a * ProbeStep, !.now = b * ProbeStep]

CooldownProbe ==
    /\ ~probe.done
    /\ LET g == can_bump(probe.last_bump_at, probe.now)
       IN  probe' = [probe EXCEPT !.done = TRUE, !.allowed = g.allowed,
                                  !.time_left = g.time_left,
                                  !.minutes = g.minutes, !.seconds = g.seconds]
    /\ UNCHANGED <<now, storeVars, chanVars, user_data, durPrompts, bumpPrompts,
                   reply, sweep, restVars>>

SpecCooldown == InitCooldown /\ [][CooldownProbe]_vars

\* ------------------------------------------------ creation and expiry alone
\* the listers open duration prompts and click them, time passes (an hour at
\* once), the sweep runs
NextCreate ==
    \/ Tick(CoarseTicks)
    \/ \E u \in Users : admin_available_command(u)
    \/ \E u \in Users, d \in DurationData : post_listing_callback(u, d)
    \/ cleanup_expired_listings

SpecCreate == Init /\ [][NextCreate]_vars

\* ---------------------------------------------------- bumps of one listing
\* the store and the channel right after the first Create of user 1 succeeded
\* at instant 0 with duration d: post_listing_callback sent message 1, saved
\* the row (id 1) and edited the prompt away
InitBump ==
    /\ now = 0
    /\ profiles = Users
    /\ \E d \in DOMAIN LISTING_DURATIONS :
           listings = {[listing_data(1, 1, LISTING_DURATIONS[d],
                                     LISTING_DURATIONS[d] * 3600, 0) EXCEPT !.id = 1]}
    /\ nextListingId = 2
    /\ chan = {1}
    /\ nextMsgId = 2
    /\ user_data = [u \in Users |-> NoSession]
    /\ durPrompts = 0
    /\ bumpPrompts = 0
    /\ reply = [Idle("post_listing") EXCEPT !.result = "live", !.mode = "media_group"]
    /\ pinnedPtr = 0
    /\ pinnedText = [count |-> 0, entries |-> {}]
    /\ sweep = NoSweep
    /\ bump = NoBump
    /\ render = NoRender
    /\ chatPtr = 0
    /\ chatView = {}
    /\ member = NoMember
    /\ countdown = NoCountdown
    /\ probe = NoProbe

\* /bump and the bump buttons of both users, time passes, the sweep runs
NextBump ==
    \/ Tick(1)
    \/ \E u \in Users : bump_command(u)
    \/ \E u \in Users, data \in BumpData : bump_execute_callback(u, data)
    \/ cleanup_expired_listings

SpecBump == InitBump /\ [][NextBump]_vars

\* ------------------------------------- replacement and bumps of one lister
\* user 1, whose first listing is live, replaces it through /available (the
\* new listing is a 4h one), bumps and confirms; time passes an hour at once
NextReplace ==
    \/ Tick(CoarseTicks)
    \/ admin_available_command(1)
    \/ \E d \in {"4h"} : post_listing_callback(1, d)
    \/ bump_command(1)
    \/ \E data \in BumpData : bump_execute_callback(1, data)

SpecReplace == InitBump /\ [][NextReplace]_vars

\* ------------------------------------ the sweep interleaved with the lister
\* user 1, whose first listing is live, replaces it through /available while
\* passes of the sweep are under way; time passes an hour at once
NextSweep ==
    \/ Tick(CoarseTicks)
    \/ admin_available_command(1)
    \/ \E d \in {"2h"} : post_listing_callback(1, d)
    \/ sweep_read
    \/ \E listing \in sweep.todo : sweep_expire(listing)
    \/ sweep_done

SpecSweep == InitBump /\ [][NextSweep]_vars

\* ------------------------------------------- the sweep, fairly scheduled
\* a pass of the sweep that read the store's listings
sweep_read_ok ==
    /\ sweep_read
    /\ sweep'.todo = {r \in listings : is_expired(r, now)}

\* an Expire whose delete of the record with this id succeeded
sweep_expire_ok(id) ==
    \E listing \in sweep.todo :
        /\ listing.id = id
        /\ sweep_expire(listing)
        /\ \A q \in listings' : q.id # id

\* the job expired_cleanup is triggered every 60 seconds and a pass, once
\* started, runs to its end (weak fairness of the three steps); the store is
\* not down for ever: the read of a pass and the delete of a record, tried
\* again and again, succeed at some time (strong fairness)
FairSweep ==
    /\ WF_vars(sweep_read)
    /\ WF_vars(\E listing \in sweep.todo : sweep_expire(listing))
    /\ WF_vars(sweep_done)
    /\ SF_vars(sweep_read_ok)
    /\ \A id \in 1 .. MaxListingIds : SF_vars(sweep_expire_ok(id))

\* the lister bumps the listing while the sweep runs
NextSweepFair ==
    \/ Tick(CoarseTicks)
    \/ bump_command(1)
    \/ \E data \in {"bump_keep", "bump_reset_2"} : bump_execute_callback(1, data)
    \/ sweep_read
    \/ \E listing \in sweep.todo : sweep_expire(listing)
    \/ sweep_done

SpecSweepFair == InitBump /\ [][NextSweepFair]_vars /\ FairSweep

\* ------------------------------------------------ the pinned list in place
\* the state of InitBump after an operator has pinned a list message and
\* stored its id as the row "pinned" of list_messages (no code of the program
\* writes that row); the message shows no listing, or the summary of the
\* store
InitPinned ==
    /\ now = 0
    /\ profiles = Users
    /\ \E d \in DOMAIN LISTING_DURATIONS :
           listings = {[listing_data(1, 1, LISTING_DURATIONS[d],
                                     LISTING_DURATIONS[d] * 3600, 0) EXCEPT !.id = 1]}
    /\ nextListingId = 2
    /\ chan = {1}
    /\ nextMsgId = 2
    /\ user_data = [u \in Users |-> NoSession]
    /\ durPrompts = 0
    /\ bumpPrompts = 0
    /\ reply = [Idle("post_listing") EXCEPT !.result = "live", !.mode = "media_group"]
    /\ pinnedPtr = MaxMsgs + 1
    /\ pinnedText \in {[count |-> 0, entries |-> {}],
                       generate_list_message(listings, profiles)}
    /\ sweep = NoSweep
    /\ bump = NoBump
    /\ render = NoRender
    /\ chatPtr = 0
    /\ chatView = {}
    /\ member = NoMember
    /\ countdown = NoCountdown
    /\ probe = NoProbe

\* the jobs of the scheduler and user 1's /available, an hour passing at once
NextPinned ==
    \/ Tick(CoarseTicks)
    \/ admin_available_command(1)
    \/ \E d \in {"2h"} : post_listing_callback(1, d)
    \/ sweep_read
    \/ \E listing \in sweep.todo : sweep_expire(listing)
    \/ sweep_done
    \/ list_periodic_update

SpecPinned == InitPinned /\ [][NextPinned]_vars

\* --------------------------------------------- every writer of the store
\* user 1 creates, replaces, bumps and deletes the profile while the three
\* jobs of the scheduler run; an hour passes at once
NextStore ==
    \/ Tick(CoarseTicks)
    \/ admin_available_command(1)
    \/ \E d \in {"2h"} : post_listing_callback(1, d)
    \/ bump_command(1)
    \/ \E data \in {"bump_reset_2"} : bump_execute_callback(1, data)
    \/ delete_profile_execute(1)
    \/ cleanup_expired_listings
    \/ update_countdown_timers
    \/ list_periodic_update

SpecStore == InitBump /\ [][NextStore]_vars

\* ------------------------------------ a bump interleaved with the jobs
\* user 1 bumps the live listing; the handlers run one at a time (the
\* Application processes its updates in sequence), the jobs of the scheduler
\* run in their thread between any two steps; an hour passes at once
NextInterleave ==
    \/ Tick(CoarseTicks)
    \/ ~bump.running /\ bump_command(1)
    \/ \E data \in {"bump_keep", "bump_reset_2"} : bump_execute_begin(1, data)
    \/ bump_execute_end
    \/ sweep_read
    \/ \E listing \in sweep.todo : sweep_expire(listing)
    \/ sweep_done
    \/ update_countdown_timers
    \/ list_periodic_update

SpecInterleave == InitBump /\ [][NextInterleave]_vars

\* the same with a channel and a store that do what the bump asks of them:
\* the awaited delete of the old message succeeds, and so does the update of
\* the record when the store still holds it
NextInterleaveSound ==
    \/ Tick(CoarseTicks)
    \/ ~bump.running /\ bump_command(1)
    \/ \E data \in {"bump_keep", "bump_reset_2"} :
           /\ bump_execute_begin(1, data)
           /\ bump'.running => bump'.listing.message_id \notin chan'
    \/ /\ bump_execute_end
       /\ \A r \in listings :
              (r.id = bump.listing.id /\ nextMsgId' # nextMsgId) => r \notin listings'
    \/ sweep_read
    \/ \E listing \in sweep.todo : sweep_expire(listing)
    \/ sweep_done

SpecInterleaveSound == InitBump /\ [][NextInterleaveSound]_vars

\* ------------------------------------------------- no pinned list as yet
\* the jobs of the scheduler and user 1's /available while no row "pinned"
\* exists in list_messages
SpecUnpinned == InitBump /\ [][NextPinned]_vars

\* ------------------------------------------- the list message on its own
\* the listings a store may hold: any owner, any message, ids in order
RenderInputs ==
    {ls \in SUBSET [id : 1 .. MaxListingIds, user_id : Users, message_id : 1 .. MaxMsgs,
                    expires_at : {2 * 3600}, duration_hours : {2}, last_bump_at : {0}] :
        /\ \A r, q \in ls : (r.id = q.id \/ r.message_id = q.message_id) => r = q
        /\ \A r \in ls : r.id <= Cardinality(ls)}

\* a store with any of those listings and the profiles of any of the users
InitRender ==
    /\ now = 0
    /\ profiles \in SUBSET Users
    /\ listings \in RenderInputs
    /\ nextListingId = Cardinality(listings) + 1
    /\ chan = {r.message_id : r \in listings}
    /\ nextMsgId = MaxMsgs + 1
    /\ user_data = [u \in Users |-> NoSession]
    /\ durPrompts = 0
    /\ bumpPrompts = 0
    /\ reply = Idle("start")
    /\ pinnedPtr = 0
    /\ pinnedText = [count |-> 0, entries |-> {}]
    /\ sweep = NoSweep
    /\ bump = NoBump
    /\ render = NoRender
    /\ chatPtr = 0
    /\ chatView = {}
    /\ member = NoMember
    /\ countdown = NoCountdown
    /\ probe = NoProbe

\* the rendering of update_available_lists and member_available_command:
\* the profiles of the owners are fetched, then the list message is generated
RenderProbe ==
    /\ ~render.done
    /\ \E profiles_found \in get_profiles_for_listings(listings) :
           render' = [done |-> TRUE, profiles |-> profiles_found,
                      out |-> generate_list_message(listings, profiles_found)]
    /\ UNCHANGED <<now, storeVars, chanVars, user_data, durPrompts, bumpPrompts,
                   reply, probe, sweep, bump, chatVars, countdown>>

SpecRender == InitRender /\ [][RenderProbe]_vars

\* ------------------------------------------------------- the chat list
\* members refresh the chat list while user 1 replaces the listing and the
\* three jobs of the scheduler run; the handlers run one at a time
NextChat ==
    \/ Tick(CoarseTicks)
    \/ \E in_group \in BOOLEAN : member_available_begin(in_group)
    \/ member_available_end
    \/ ~member.running /\ admin_available_command(1)
    \/ ~member.running /\ \E d \in {"2h"} : post_listing_callback(1, d)
    \/ cleanup_expired_listings
    \/ update_countdown_timers
    \/ list_periodic_update

SpecChat == InitBump /\ [][NextChat]_vars

\* --------------------------------------------- the two passes, listing by listing
\* user 1 replaces the listing and deletes the profile while passes of the
\* countdown refresh and of the sweep are under way
NextPasses ==
    \/ Tick(CoarseTicks)
    \/ admin_available_command(1)
    \/ \E d \in {"2h"} : post_listing_callback(1, d)
    \/ delete_profile_execute(1)
    \/ countdown_read
    \/ \E listing \in countdown.todo : countdown_step(listing)
    \/ countdown_done
    \/ sweep_read
    \/ \E listing \in sweep.todo : sweep_expire(listing)
    \/ sweep_done

SpecPasses == InitBump /\ [][NextPasses]_vars

\* ------------------------------------------------ the three jobs side by side
\* the three jobs of start_scheduler, the two loops listing by listing, next
\* to user 1 replacing the listing; the pinned pointer is set
NextJobs ==
    \/ NextPinned
    \/ countdown_read
    \/ \E listing \in countdown.todo : countdown_step(listing)
    \/ countdown_done

SpecJobs == InitPinned /\ [][NextJobs]_vars

\* --------------------------------------------- the dispatch of group commands
\* a user of the group chat who is not an approved admin
Members == {3}

\* bot.py, main: the command handlers registered for the group chat, in the
\* order of their add_handler calls, all in the default handler group
group_handlers ==
    <<[command |-> "available", callback |-> "admin_available_command"],
      [command |-> "bump", callback |-> "bump_command"],
      [command |-> "available", callback |-> "member_available_command"]>>

\* the handler that gets a command sent in the group chat: within one handler
\* group the application hands an update to the first registered handler
\* that matches it, and to no other
first_match(command) ==
    LET i == CHOOSE i \in DOMAIN group_handlers :
                 /\ group_handlers[i].command = command
                 /\ \A j \in 1..(i - 1) : group_handlers[j].command # command
    IN  group_handlers[i].callback

\* bot.py, main: user u sends a command in the group chat and the
\* application runs the handler it dispatches to
process_update(command, u) ==
    LET callback == first_match(command)
    IN  CASE callback = "admin_available_command" -> admin_available_command(u)
          [] callback = "bump_command" -> bump_command(u)
          [] callback = "member_available_command" -> member_available_begin(TRUE)

NextDispatch ==
    \/ Tick(CoarseTicks)
    \/ \E u \in {1} \cup Members : process_update("available", u)
    \/ \E u \in {1} \cup Members : process_update("bump", u)
    \/ \E d \in {"2h"} : post_listing_callback(1, d)
    \/ \E data \in {"bump_reset_2"} : bump_execute_callback(1, data)
    \/ cleanup_expired_listings

SpecDispatch == InitBump /\ [][NextDispatch]_vars

\* ------------------------------------------------- clicks on a duration prompt
\* /available and clicks on the duration buttons by both users, with any
\* callback data the pattern lets through, while profiles are deleted
NextClick ==
    \/ Tick(CoarseTicks)
    \/ \E u \in Users : admin_available_command(u)
    \/ \E u \in Users, d \in DurationData : post_listing_callback(u, d)
    \/ \E u \in Users : delete_profile_execute(u)
    \/ cleanup_expired_listings

SpecClick == Init /\ [][NextClick]_vars

\* ================================================================ properties
\* a step of bump_execute_callback that committed a bump of listing r into q:
\* the row of the same id now names another message
Committed(r, q) == q.id = r.id /\ q.message_id # r.message_id

\* the replies of bump_execute_callback after its send succeeded
BumpedResults == {"bumped", "bumped_edit_failed"}

\* C1: in every reachable state the store holds at most one listing record per
\* owner, whatever the sequence of /available commands, duration clicks (also
\* on a prompt opened by another user) and sweeps.
C1_AtMostOneListingPerOwner ==
    \A r1, r2 \in listings : r1.user_id = r2.user_id => r1 = r2

\* C2: a Create for an owner who already has a listing record is rejected
\* (DuplicateActive): the step of post_listing_callback posts no second listing
\* message and inserts no record for an owner that had one.
C2_DuplicateCreateRejected ==
    [][reply'.op = "post_listing" =>
           \A r \in listings' \ listings :
               \A q \in listings : q.user_id # r.user_id]_vars

C4_FailedSendStoresNothing ==
    [][(reply'.op = "post_listing" /\ reply'.result = "send_failed") =>
           UNCHANGED storeVars]_vars

\* a Create whose send failed although the channel had ids left, in a store
\* that already holds a record
C4_Witness ==
    /\ reply.op = "post_listing"
    /\ reply.result = "send_failed"
    /\ nextMsgId <= MaxMsgs
    /\ nextListingId <= MaxListingIds
    /\ listings # {}

\* C5: the cooldown gate of /bump allows the request iff
\* now - last_bump_at >= 30 minutes; when it rejects, the wait it reports
\* (minutes and seconds) is exactly 30 minutes - (now - last_bump_at), which
\* is never negative.
C5_CooldownGate ==
    probe.done =>
        LET elapsed == probe.now - probe.last_bump_at
        IN  /\ probe.allowed <=> elapsed >= 30 * 60
            /\ ~probe.allowed =>
                   /\ probe.time_left = 30 * 60 - elapsed
                   /\ probe.time_left >= 0
                   /\ probe.minutes * 60 + probe.seconds = probe.time_left
                   /\ probe.seconds \in 0 .. 59

\* the gate rejected a request with a wait that is not a whole number of minutes
C5_Witness ==
    /\ probe.done
    /\ ~probe.allowed
    /\ probe.time_left > 0
    /\ probe.seconds # 0
    /\ probe.now > probe.last_bump_at

\* C6: a /bump rejected by the cooldown deletes, posts and edits no listing
\* message, leaves the listing records unchanged and stores no pending-bump
\* session data.
C6_CooldownRejectNoEffect ==
    [][(reply'.op = "bump" /\ reply'.result = "cooldown") =>
           UNCHANGED <<chan, nextMsgId, pinnedText, listings, nextListingId,
                       user_data, bumpPrompts>>]_vars

\* a /bump was rejected one tick after a committed bump of the listing
C6_Witness ==
    /\ reply.op = "bump"
    /\ reply.result = "cooldown"
    /\ \E r \in listings : r.last_bump_at > 0 /\ now - r.last_bump_at = TickSeconds

\* C7: the commit instants (last_bump_at) of two successive committed bumps of
\* a listing, and of its creation and its first committed bump, are at least
\* the cooldown apart.
C7_CommitsCooldownApart ==
    [][\A r \in listings : \A q \in listings' :
           Committed(r, q) => q.last_bump_at - r.last_bump_at >= 30 * 60]_vars

\* C8 (as claimed): a KeepRemaining bump does not move the absolute expiry:
\* the expires_at it stores equals the previous expires_at, for every delay
\* between the /bump command and the click.
C8_KeepPreservesExpiry ==
    [][(reply'.op = "bump_execute" /\ reply'.mode = "bump_keep"
            /\ reply'.result \in BumpedResults) =>
           \A r \in listings : \A q \in listings' :
               Committed(r, q) => q.expires_at = r.expires_at]_vars

\* C8 (amended): an accepted /bump stores the remaining lifetime of the
\* listing at the instant of the command (expires_at - now), and a
\* KeepRemaining bump stores expires_at = commit instant + that stored
\* remaining lifetime, with last_bump_at = commit instant.
C8_KeepAddsRemainingOfCommand ==
    [][/\ (reply'.op = "bump" /\ reply'.result = "prompted") =>
              \A u \in Users : user_data'[u] # user_data[u] =>
                  \E r \in listings :
                      /\ r.user_id = u
                      /\ user_data'[u].bump_listing_id = r.id
                      /\ user_data'[u].bump_time_remaining = r.expires_at - now
       /\ (reply'.op = "bump_execute" /\ reply'.mode = "bump_keep"
               /\ reply'.result \in BumpedResults) =>
              \A r \in listings : \A q \in listings' :
                  Committed(r, q) =>
                      /\ q.expires_at = now + user_data[r.user_id].bump_time_remaining
                      /\ q.last_bump_at = now]_vars

\* a KeepRemaining bump committed two ticks or more after the creation, with
\* an expiry that no Create at instant 0 stores
C8_Witness ==
    /\ reply.op = "bump_execute"
    /\ reply.mode = "bump_keep"
    /\ reply.result = "bumped"
    /\ \E r \in listings :
           /\ r.last_bump_at = now
           /\ r.message_id = nextMsgId - 1
           /\ r.expires_at \notin {LISTING_DURATIONS[d] * 3600 : d \in DOMAIN LISTING_DURATIONS}
           /\ r.expires_at > now

\* C9: a ResetTo(d) bump, d in 2h, 4h, 6h, stores expires_at = commit instant
\* + d, duration = d and last_bump_at = commit instant, whatever the prior
\* remaining time of the listing.
C9_ResetStoresFromCommit ==
    [][\A d \in {2, 4, 6} :
           (reply'.op = "bump_execute" /\ reply'.result \in BumpedResults
                /\ reply'.mode = (CASE d = 2 -> "bump_reset_2"
                                    [] d = 4 -> "bump_reset_4"
                                    [] d = 6 -> "bump_reset_6")) =>
               \A r \in listings : \A q \in listings' :
                   Committed(r, q) =>
                       /\ q.expires_at = now + d * 3600
                       /\ q.duration_hours = d
                       /\ q.last_bump_at = now]_vars

\* a 2h listing was reset to 4h after its creation and expires 4h after the commit
C9_Witness ==
    /\ reply.op = "bump_execute"
    /\ reply.mode = "bump_reset_4"
    /\ reply.result = "bumped"
    /\ now > 0
    /\ \E r \in listings :
           /\ r.message_id = nextMsgId - 1
           /\ r.last_bump_at = now
           /\ r.duration_hours = 4
           /\ r.expires_at = now + 4 * 3600

\* C10: when the repost fails during Bump, also after the old message was
\* deleted, the listing record is left completely unchanged (it keeps the old
\* message id, expires_at, duration and last_bump_at) and the failure goes to
\* the caller (RepostFailed).
C10_RepostFailureLeavesRecord ==
    [][(reply'.op = "bump_execute" /\ reply'.result = "repost_failed") =>
           UNCHANGED <<listings, nextListingId>>]_vars

\* the repost failed after the old message was deleted, the channel having
\* ids left: the record names a message that is no longer in the channel
C10_Witness ==
    /\ reply.op = "bump_execute"
    /\ reply.result = "repost_failed"
    /\ reply.deleted
    /\ nextMsgId <= MaxMsgs
    /\ \E r \in listings : r.message_id \notin chan /\ r.expires_at > now

\* C11: a failure to delete the old channel message during Bump does not
\* abort the bump: whenever a confirmation click can proceed (session and
\* listing match, profile readable, the channel accepts a send), it can end
\* with the old message still in the channel, the new message posted and the
\* record updated to the new message id, expires_at and last_bump_at; and
\* every bump reported as done whose old message was not removed (the delete
\* failed, or the message was gone already) has posted the new message and
\* written the new message id and last_bump_at.
C11_DeleteFailureDoesNotAbort ==
    /\ [](\A u \in Users : \A r \in listings :
            (/\ r.user_id = u
             /\ user_data[u].bump_listing_id = r.id
             /\ r.message_id \in chan
             /\ bumpPrompts > 0
             /\ nextMsgId <= MaxMsgs) =>
                ENABLED (/\ bump_execute_callback(u, "bump_reset_2")
                         /\ r.message_id \in chan'
                         /\ nextMsgId \in chan'
                         /\ \E q \in listings' :
                                /\ q.id = r.id
                                /\ q.message_id = nextMsgId
                                /\ q.expires_at = now + 2 * 3600
                                /\ q.last_bump_at = now))
    /\ [][(reply'.op = "bump_execute" /\ reply'.result \in BumpedResults) =>
              \A r \in listings :
                  (r.message_id \in chan' \/ r.message_id \notin chan) =>
                      /\ nextMsgId' = nextMsgId + 1
                      /\ nextMsgId \in chan'
                      /\ \A q \in listings' :
                             Committed(r, q) =>
                                 /\ q.message_id = nextMsgId
                                 /\ q.last_bump_at = now]_vars

\* a bump committed although the delete of the old message failed: the old
\* message and the new one are both in the channel, the record names the new
C11_Witness ==
    /\ reply.op = "bump_execute"
    /\ reply.result = "bumped"
    /\ \E r \in listings :
           /\ r.message_id = nextMsgId - 1
           /\ r.last_bump_at = now
           /\ r.message_id \in chan
           /\ chan = 1 .. (nextMsgId - 1)
           /\ nextMsgId = 3

\* C12: a bump for an owner with no listing record fails with
\* NoActiveListing, at the /bump command (no record) and at the confirmation
\* click (record gone, or replaced by one with another id since the command),
\* and performs no channel delete or send and no store write.
C12_NoListingNoEffect ==
    [][/\ (reply'.op = "bump" /\ listings = {}) => reply'.result = "no_listing"
       /\ (reply'.op = "bump_execute"
               /\ \A u \in Users : \A r \in listings :
                      ~(r.user_id = u /\ r.id = user_data[u].bump_listing_id)) =>
              reply'.result \in {"no_session", "not_found"}
       /\ (reply'.op \in {"bump", "bump_execute"}
               /\ reply'.result \in {"no_listing", "no_session", "not_found"}) =>
              UNCHANGED <<chan, nextMsgId, listings, nextListingId, user_data>>]_vars

\* a click was refused as not found: the session names listing 1, which was
\* replaced by a listing with another id that is live in the channel
C12_Witness ==
    /\ reply.op = "bump_execute"
    /\ reply.result = "not_found"
    /\ user_data[1].bump_listing_id = 1
    /\ \A r \in listings : r.id # 1
    /\ \E r \in listings : r.user_id = 1 /\ r.message_id \in chan

\* C13: Expire deletes the store record of a listing whether or not its
\* channel message was deleted: in every state a sweep pass can remove the
\* records of all expired listings although none of their messages leaves
\* the channel.
C13_RecordDeletedRegardlessOfMessage ==
    (\E r \in listings : is_expired(r, now)) =>
        ENABLED (/\ cleanup_expired_listings
                 /\ listings' = {q \in listings : ~is_expired(q, now)}
                 /\ chan' = chan)

\* a pass has removed the record of an expired listing whose message is
\* still in the channel
C13_Witness ==
    /\ reply.op = "cleanup"
    /\ listings = {}
    /\ nextListingId = 2
    /\ nextMsgId = 2
    /\ chan = {1}
    /\ durPrompts = 0
    /\ now >= 2 * 3600

\* the step is the Expire of listing r of the snapshot of the pass under way
Expires(r) ==
    /\ sweep.running
    /\ sweep'.running
    /\ r \in sweep.todo
    /\ sweep'.todo = sweep.todo \ {r}

\* C14: Expire is idempotent: expiring a listing whose record is already
\* absent from the store (removed by an earlier Expire or by a replacement,
\* its message gone or not) leaves the store and the channel exactly as they
\* were; the pass goes on.
C14_ExpireIdempotent ==
    [][\A r \in sweep.todo :
           (Expires(r) /\ \A q \in listings : q.id # r.id) =>
               UNCHANGED <<storeVars, chanVars>>]_vars

\* the pass has expired the listing of its snapshot after /available had
\* removed its message and record and a new listing was created
C14_Witness ==
    /\ sweep.running
    /\ sweep.any
    /\ sweep.todo = {}
    /\ chan = {2}
    /\ \E r \in listings : r.id = 2 /\ r.message_id = 2
    /\ \A r \in listings : r.id = 2

\* C15: a sweep pass expires exactly the listings of its snapshot with
\* expires_at <= now: each of them gets its message delete and its record
\* delete attempted (an attempt being a call that removes the message, or the
\* record, unless it fails), and no listing with expires_at > now has its
\* message or record touched by the pass.
C15_PassExpiresExactlyTheExpired ==
    /\ [](\A r \in sweep.todo :
            /\ r.expires_at <= now
            /\ r.message_id \in chan =>
                   ENABLED (sweep_expire(r) /\ r.message_id \notin chan')
            /\ r \in listings =>
                   ENABLED (sweep_expire(r) /\ r \notin listings'))
    /\ [][/\ (~sweep.running /\ sweep'.running) =>
                 sweep'.todo \in {{r \in listings : r.expires_at <= now}, {}}
          /\ \A r \in sweep.todo :
                 Expires(r) =>
                     /\ listings' \subseteq listings
                     /\ \A q \in listings \ listings' : q.id = r.id
                     /\ chan' \subseteq chan
                     /\ chan \ chan' \subseteq {r.message_id}]_vars

\* the step ends a pass of the sweep
PassEnds == sweep.running /\ ~sweep'.running

\* the step called update_available_lists from the sweep
SweepSyncs == reply'.op = "cleanup" /\ reply'.result = "update_available_lists"

\* C16: a sweep pass that expires N >= 1 listings calls update_available_lists
\* exactly once, after all N were processed, and a pass that expires none
\* does not call it: the call is made only by the step that ends a pass, when
\* no listing of the snapshot is left to process, and that step makes it iff
\* the snapshot held an expired listing.
C16_OneSyncPerExpiringPass ==
    [][/\ (~sweep.running /\ sweep'.running) => sweep'.any = (sweep'.todo # {})
       /\ (sweep.running /\ sweep'.running) =>
              /\ sweep'.any = sweep.any
              /\ sweep' = sweep \/ \E r \in sweep.todo : Expires(r)
       /\ SweepSyncs => (PassEnds /\ sweep.todo = {} /\ sweep.any)
       /\ PassEnds => (SweepSyncs <=> sweep.any)]_vars

\* a pass that expired listings has ended with its one call: both records
\* ever made are gone from the store, their messages still in the channel
C16_Witness ==
    /\ ~sweep.running
    /\ reply.result = "update_available_lists"
    /\ listings = {}
    /\ nextListingId = 3
    /\ chan = {1, 2}

\* the summary of the listings the store holds, every owner's profile found
CurrentSummary == generate_list_message(listings, profiles)

\* C17: every call of update_available_lists reads the pinned pointer and,
\* when the pointer is present, edits the pinned message once, in place, to the
\* summary rendered from the listings the store holds, whether the store holds
\* none or some: wherever the pointer is present, a run of the synchronizer
\* can leave the pinned message showing that summary.
C17_SyncEditsPinned ==
    pinnedPtr # 0 =>
        ENABLED (list_periodic_update /\ pinnedText' = CurrentSummary)

\* C18: when the listing of owner U1, the only one in the store, is past its
\* expires_at (its message in the channel, the pinned message, pointer
\* present, showing U1), the next pass of the sweep can delete the record and
\* the channel message and leave the pinned message showing U1 absent.
C18_SweepClearsExpiredOwner ==
    \A r \in listings :
        (/\ listings = {r}
         /\ is_expired(r, now)
         /\ r.message_id \in chan
         /\ ~sweep.running
         /\ pinnedPtr # 0
         /\ \E e \in pinnedText.entries : e[1] = r.user_id) =>
            ENABLED (/\ cleanup_expired_listings
                     /\ listings' = {}
                     /\ r.message_id \notin chan'
                     /\ \A e \in pinnedText'.entries : e[1] # r.user_id)

\* the store holds a record with this id whose expires_at has passed
ExpiredInStore(id) == \E r \in listings : r.id = id /\ r.expires_at <= now

\* C19: under fair scheduling of the sweep and store calls that succeed at
\* some time, every listing record whose expires_at has passed is eventually
\* out of the store, unless a bump has moved its expires_at to the future.
C19_ExpiredEventuallyRemoved ==
    \A id \in 1 .. MaxListingIds : ExpiredInStore(id) ~> ~ExpiredInStore(id)

\* a pass has removed the record of the expired first listing, which nothing
\* else had touched
C19_Witness ==
    /\ sweep.running
    /\ sweep.any
    /\ sweep.todo = {}
    /\ listings = {}
    /\ nextListingId = 2
    /\ nextMsgId = 2
    /\ chan = {1}
    /\ durPrompts = 0
    /\ bumpPrompts = 0

\* C20: a listing record leaves the store only through the sweep and is
\* changed only by a bump: in every step, a record whose id is gone from the
\* store was removed by a pass of the sweep, and a record whose id now holds
\* other values was changed by bump_execute_callback.
C20_OnlySweepRemovesOnlyBumpChanges ==
    [][\A r \in listings :
           /\ (\A q \in listings' : q.id # r.id) => reply'.op = "cleanup"
           /\ (\E q \in listings' : q.id = r.id /\ q # r) =>
                  reply'.op = "bump_execute"]_vars

\* C21: in every reachable state every listing record has expires_at =
\* last_bump_at + its stored duration (duration_hours hours), after Create
\* and after every committed bump, keep or reset.
C21_ExpiryDerivedFromBumpAndDuration ==
    \A r \in listings : r.expires_at = r.last_bump_at + r.duration_hours * 3600

\* a job of the scheduler has read the listings of the store in this step
ReaderRuns ==
    \/ reply'.op \in {"update_countdown_timers", "update_available_lists"}
    \/ ~sweep.running /\ sweep'.running

\* the bump under way has deleted the message the listing record still names
BumpWindow ==
    /\ bump.running
    /\ \E r \in listings : r.id = bump.listing.id /\ r.message_id \notin chan

\* C22: no reader of the store (countdown refresh, expiry sweep,
\* synchronizer) observes a listing record whose message a bump under way has
\* already deleted: no job reads the listings between the delete of the old
\* message and the update of the record.
C22_BumpWindowNotObservable ==
    [][ReaderRuns => ~BumpWindow]_vars

\* the listing messages in the channel that no record of the store names
Orphans == {m \in chan : \A r \in listings : r.message_id # m}

SyncRuns ==
    \/ reply'.op = "update_available_lists"
    \/ SweepSyncs

\* C24: while no pinned pointer exists, a run of update_available_lists sends,
\* edits and deletes nothing in the channel and creates no pointer; the
\* pointer stays absent however many times the synchronizer runs.
C24_NoPointerNoEffect ==
    /\ [](pinnedPtr = 0)
    /\ [][(SyncRuns /\ pinnedPtr = 0) =>
              UNCHANGED <<chan, nextMsgId, pinnedText, pinnedPtr>>]_vars

\* the synchronizer has run on a store that holds a listing, no pointer there
C24_Witness ==
    /\ reply.op = "update_available_lists"
    /\ pinnedPtr = 0
    /\ listings # {}
    /\ now > 0

\* C25: an edit of the pinned message that fails during a run of the
\* synchronizer is caught: the run tells no error, the pass of the sweep that
\* called it ends (a pass with nothing left to expire can always end, the
\* pinned message as it was), and the pinned pointer is unchanged.
C25_FailedEditCaught ==
    /\ []((sweep.running /\ sweep.todo = {}) =>
              ENABLED (sweep_done /\ ~sweep'.running /\ pinnedText' = pinnedText))
    /\ [][SyncRuns => /\ pinnedPtr' = pinnedPtr
                      /\ reply'.result # "error"
                      /\ reply'.op = "cleanup" => PassEnds]_vars

\* the sweep has called the synchronizer, pointer present, listings in the
\* store, and the pinned message does not show their summary
C25_Witness ==
    /\ reply.op = "cleanup"
    /\ reply.result = "update_available_lists"
    /\ ~sweep.running
    /\ pinnedPtr # 0
    /\ listings # {}
    /\ pinnedText # CurrentSummary

\* the entry of the list message for listing r: its owner and the link to
\* its message
EntryOf(r) == <<r.user_id, r.message_id>>

\* C26: the summary rendered for the pinned and the chat view holds an entry
\* for exactly the listings of the store whose owner's profile was found; a
\* listing whose owner has no profile has no entry and raises no error (the
\* rendering ends for every store, and with every profile read it lists
\* exactly the listings whose owner has a profile).
C26_EntriesForOwnersWithProfile ==
    /\ render.done =>
           /\ render.profiles \subseteq profiles
           /\ \A r \in listings :
                  EntryOf(r) \in render.out.entries <=> r.user_id \in render.profiles
           /\ \A e \in render.out.entries : \E r \in listings : e = EntryOf(r)
    /\ ~render.done =>
           ENABLED (/\ RenderProbe
                    /\ render'.out.entries =
                           {EntryOf(r) : r \in {x \in listings : x.user_id \in profiles}})

\* a summary was rendered of a store that holds a listing whose owner has a
\* profile and one whose owner has none
C26_Witness ==
    /\ render.done
    /\ render.out.entries # {}
    /\ \E r \in listings : r.user_id \notin profiles
    /\ \E r \in listings : r.user_id \in render.profiles

C28_ChatPointerNamesLastPost ==
    /\ []((member.running /\ nextMsgId <= MaxMsgs) =>
              ENABLED (member_available_end /\ reply'.result = "posted"))
    /\ [][/\ \A n \in chatView' \ chatView : chatPtr' = n.id
          /\ reply'.result = "post_failed" => chatPtr' = chatPtr
          /\ chatPtr' # chatPtr => chatView' \ chatView # {}]_vars

\* C29: in every pass of the countdown refresh and of the expiry sweep a
\* failure on one listing does not keep the pass from the remaining listings
\* of its snapshot: an Expire whose record delete fails leaves the pass going
\* with the rest, and the countdown pass goes on past every listing, calling
\* the edit for each one whose owner has a profile.
C29_PassesIsolateFailures ==
    /\ \A r \in sweep.todo :
           ENABLED (/\ sweep_expire(r)
                    /\ listings' = listings
                    /\ sweep'.running
                    /\ sweep'.todo = sweep.todo \ {r})
    /\ \A r \in countdown.todo :
           r.user_id \in profiles =>
               ENABLED (/\ countdown_step(r)
                        /\ countdown'.running
                        /\ countdown'.todo = countdown.todo \ {r}
                        /\ r.id \in countdown'.attempted)

\* a step of one of the three jobs of the scheduler
JobRuns == reply'.op \in {"update_countdown_timers", "update_available_lists", "cleanup"}

\* C30: a step of the countdown refresh or of the Broadcast Synchronizer
\* (the full resync, or the one a sweep ends with) leaves the listing
\* records, the profiles and both list pointers as they are; a step of any
\* of the three jobs creates and modifies no record and writes no pointer,
\* and the only records that go are those the sweep is processing and finds
\* expired: however the jobs interleave, the store changes as under the
\* sweep alone.
C30_OnlySweepWritesStore ==
    [][/\ (ReaderRuns \/ SweepSyncs) =>
              UNCHANGED <<storeVars, chatPtr>>
       /\ JobRuns =>
              /\ UNCHANGED <<profiles, nextListingId, pinnedPtr, chatPtr>>
              /\ listings' \subseteq listings
              /\ \A r \in listings \ listings' :
                     Expires(r) /\ is_expired(r, now)]_vars

\* the sweep has removed the last record while a countdown pass that read
\* it is under way, and the pinned message has been resynchronised
C30_Witness ==
    /\ listings = {}
    /\ countdown.running
    /\ countdown.todo # {}
    /\ reply.op = "cleanup"
    /\ reply.result = "update_available_lists"

\* C31: a step of the expiry sweep removes a record only if the expires_at
\* the store holds for it at that moment is <= now, also when a bump of the
\* listing committed after the sweep read its snapshot.
C31_SweepDeletesOnlyExpiredRecord ==
    [][reply'.op = "cleanup" =>
           \A r \in listings :
               (\A q \in listings' : q.id # r.id) => r.expires_at <= now]_vars

\* C32: every committed bump leaves the record with expires_at strictly
\* later than its new last_bump_at, the instant of the commit, also for a
\* bump that keeps the remaining time of a listing whose expires_at had
\* passed when /bump was sent.
C32_BumpedExpiryAfterCommit ==
    [][\A r \in listings : \A q \in listings' :
           Committed(r, q) => q.expires_at > q.last_bump_at]_vars

\* C33: when the bump confirmation is rejected after the listing was found,
\* for an unknown bump option or a missing profile of the owner, the
\* listing's message is still in the channel and its record is unchanged.
C33_RejectedBumpKeepsMessage ==
    [][(reply'.op = "bump_execute" /\ reply'.result \in {"invalid_option", "no_profile"}) =>
           chan' = chan /\ listings' = listings]_vars

\* C34: whenever Create or Bump reports success to the user, the store holds
\* a record whose message id is the id of the message the handler has just
\* sent, also when the write to the store fails.
C34_SuccessMeansStored ==
    [][((reply'.op = "post_listing" /\ reply'.result = "live")
        \/ (reply'.op = "bump_execute" /\ reply'.result = "bumped")) =>
           \E q \in listings' : q.message_id = nextMsgId]_vars

\* C35: whenever a listing record can leave the store, by an Expire of the
\* sweep, by the replacement of /available or by the deletion of the owner's
\* profile with its cascade, the same step attempts the delete of the
\* listing's channel message: the step that removes the record of a message
\* still in the channel can remove that message with it.
C35_RemovalAttemptsMessageDelete ==
    \A r \in listings :
        r.message_id \in chan =>
            /\ (ENABLED (sweep_expire(r) /\ r \notin listings')) =>
                   ENABLED (sweep_expire(r) /\ r \notin listings'
                            /\ r.message_id \notin chan')
            /\ (ENABLED (admin_available_command(r.user_id) /\ r \notin listings')) =>
                   ENABLED (admin_available_command(r.user_id) /\ r \notin listings'
                            /\ r.message_id \notin chan')
            /\ (ENABLED (delete_profile_execute(r.user_id) /\ r \notin listings')) =>
                   ENABLED (delete_profile_execute(r.user_id) /\ r \notin listings'
                            /\ r.message_id \notin chan')

\* C36: /available never leaves an owner who had an active listing without
\* a listing record: when the handler has answered, "replaced" included,
\* every owner who had a record before the command still has one.
C36_AvailableKeepsARecord ==
    [][reply'.op = "available" =>
           \A r \in listings : \E q \in listings' : q.user_id = r.user_id]_vars

\* C37: an accepted /bump leads to at most one committed bump: the step that
\* commits a bump clears the owner's pending-bump session, and a click on a
\* bump prompt while no session is pending changes neither the channel nor
\* the store.
C37_OneCommitPerAcceptedBump ==
    [][/\ \A r \in listings : \A q \in listings' :
              Committed(r, q) => user_data'[q.user_id] = NoSession
       /\ (reply'.op = "bump_execute" /\ \A u \in Users : user_data[u] = NoSession) =>
              UNCHANGED <<chan, listings>>]_vars

\* C38: a /available sent in the group chat by a user who is not an approved
\* admin runs the member's refresh of the chat list; the admin handler
\* registered for the same command does not keep it from running.
C38_MemberAvailableRuns ==
    [][\A u \in Members :
           process_update("available", u) => reply'.op = "member_available"]_vars

\* C39: a click on a duration button that carries a duration outside the
\* offered set (2h, 4h, 6h), or that is made by a user without a profile,
\* posts no listing message and creates no listing record.
C39_BadClickNoEffect ==
    [][\A u \in Users : \A d \in DurationData :
           (post_listing_callback(u, d)
            /\ (d \notin DOMAIN LISTING_DURATIONS \/ u \notin profiles)) =>
               UNCHANGED <<listings, nextListingId, chan, nextMsgId>>]_vars

\* a click made on a pending prompt after every profile has been deleted,
\* in a channel that still has room for a message and a store for a record
C39_Witness ==
    /\ profiles = {}
    /\ reply.op = "post_listing"
    /\ reply.result = "no_profile"
    /\ nextMsgId <= MaxMsgs
    /\ nextListingId <= MaxListingIds

====
